---- MODULE Spec2Model ----
(***************************************************************************)
(* Model of the two command-line programs of semver-git:                   *)
(*   version_check  (src/scripts/version_check/version_check.go)           *)
(*   describe       (src/unnamed/part_000)                                 *)
(* Strings are TLA+ strings, handled byte by byte as Go does; stdout is    *)
(* the text written so far.  The loggers write to stderr only, so the      *)
(* -d and --no-color flags and the log calls change nothing modelled here. *)
(***************************************************************************)
EXTENDS Naturals, Sequences, FiniteSets, TLC

VARIABLES
    tool,           \* which binary runs: "version_check" or "describe"
    pc,             \* position of main
    helpFlag, versionFlag, rulesFlag, typeFlag, buildTypeFlag,
    releaseFlag, strategy,
    args,           \* flag.Args(): the positional arguments
    PROJECT_NAME,   \* os.Getenv("PROJECT_NAME")
    RELEASE, VERSIONING,
    stdout,         \* text written to os.Stdout
    exitCode,       \* process exit status
    calls,          \* subprocess invocations made so far
    lastRun,        \* result of the latest subprocess invocation
    lastFn,         \* the extractor that returned last: Project, Module, ...
    lastRet,        \* value returned by the latest extractor call
    remote,         \* what the remote-listing subprocess yields in this repository
    projectRes, versionRes,   \* operands of Printf already evaluated (full)
    versionStr,     \* input of the classifier (classification runs)
    category        \* patterns found to match versionStr

vars == <<tool, pc, helpFlag, versionFlag, rulesFlag, typeFlag, buildTypeFlag,
          releaseFlag, strategy, args, PROJECT_NAME, RELEASE, VERSIONING,
          stdout, exitCode, calls, lastRun, lastFn, lastRet, remote,
          projectRes, versionRes, versionStr, category>>

(***************************************************************************)
(* Bounds                                                                  *)
(***************************************************************************)
MaxPieces == 4      \* pieces after the numeric prefix, classification runs
MaxArgPieces == 2   \* pieces after the numeric prefix, version_check runs
MaxDistance == 2    \* commit distance in describe output

(***************************************************************************)
(* Go string primitives                                                    *)
(***************************************************************************)
Ch(s, i) == SubSeq(s, i, i)

\* strings.HasPrefix / strings.HasSuffix
HasPrefix(s, p) == Len(p) <= Len(s) /\ SubSeq(s, 1, Len(p)) = p
HasSuffix(s, p) == Len(p) <= Len(s) /\ SubSeq(s, Len(s) - Len(p) + 1, Len(s)) = p

\* strings.Index, 1-based; 0 when sub does not occur
Index(s, sub) ==
    LET hits == {i \in 1..(Len(s) + 1) :
                    i + Len(sub) - 1 <= Len(s) /\ SubSeq(s, i, i + Len(sub) - 1) = sub}
    IN IF hits = {} THEN 0 ELSE CHOOSE i \in hits : \A j \in hits : i <= j

Contains(s, sub) == Index(s, sub) # 0

TrimPrefix(s, p) == IF HasPrefix(s, p) THEN SubSeq(s, Len(p) + 1, Len(s)) ELSE s
TrimSuffix(s, p) == IF HasSuffix(s, p) THEN SubSeq(s, 1, Len(s) - Len(p)) ELSE s

\* strings.Replace(s, old, new, 1), old non-empty
ReplaceFirst(s, old, new) ==
    LET i == Index(s, old)
    IN IF i = 0 THEN s
       ELSE SubSeq(s, 1, i - 1) \o new \o SubSeq(s, i + Len(old), Len(s))

\* strings.ReplaceAll(s, old, new), old non-empty
RECURSIVE ReplaceAll(_, _, _)
ReplaceAll(s, old, new) ==
    LET i == Index(s, old)
    IN IF i = 0 THEN s
       ELSE SubSeq(s, 1, i - 1) \o new
            \o ReplaceAll(SubSeq(s, i + Len(old), Len(s)), old, new)

\* strings.Split(s, sep), sep non-empty: always at least one element
RECURSIVE Split(_, _)
Split(s, sep) ==
    LET i == Index(s, sep)
    IN IF i = 0 THEN <<s>>
       ELSE <<SubSeq(s, 1, i - 1)>> \o Split(SubSeq(s, i + Len(sep), Len(s)), sep)

\* strings.SplitN(s, sep, 2)
SplitN2(s, sep) ==
    LET i == Index(s, sep)
    IN IF i = 0 THEN <<s>>
       ELSE <<SubSeq(s, 1, i - 1), SubSeq(s, i + Len(sep), Len(s))>>

\* strings.Join
RECURSIVE Join(_, _)
Join(parts, sep) ==
    IF Len(parts) = 0 THEN ""
    ELSE IF Len(parts) = 1 THEN parts[1]
    ELSE parts[1] \o sep \o Join(Tail(parts), sep)

IsSpace(c) == c \in {" ", "\t", "\n", "\r"}

\* strings.Fields: the maximal runs of non-space bytes
RECURSIVE Fields(_)
Fields(s) ==
    IF s = "" THEN <<>>
    ELSE IF IsSpace(Ch(s, 1)) THEN Fields(SubSeq(s, 2, Len(s)))
    ELSE LET ends == {i \in 1..Len(s) : IsSpace(Ch(s, i))}
             e == IF ends = {} THEN Len(s) + 1
                  ELSE CHOOSE i \in ends : \A j \in ends : i <= j
         IN <<SubSeq(s, 1, e - 1)>> \o Fields(SubSeq(s, e, Len(s)))

\* strings.TrimSpace
RECURSIVE TrimLeftSpace(_)
TrimLeftSpace(s) ==
    IF s # "" /\ IsSpace(Ch(s, 1)) THEN TrimLeftSpace(SubSeq(s, 2, Len(s))) ELSE s
RECURSIVE TrimRightSpace(_)
TrimRightSpace(s) ==
    IF s # "" /\ IsSpace(Ch(s, Len(s))) THEN TrimRightSpace(SubSeq(s, 1, Len(s) - 1)) ELSE s
TrimSpace(s) == TrimRightSpace(TrimLeftSpace(s))

\* filepath.Base
RECURSIVE TrimRightSlash(_)
TrimRightSlash(s) ==
    IF s # "" /\ Ch(s, Len(s)) = "/" THEN TrimRightSlash(SubSeq(s, 1, Len(s) - 1)) ELSE s
Base(path) ==
    IF path = "" THEN "."
    ELSE LET p == TrimRightSlash(path)
             parts == Split(p, "/")
         IN IF p = "" THEN "/" ELSE parts[Len(parts)]

(***************************************************************************)
(* Regular expressions, as sets of positions an automaton can be in        *)
(***************************************************************************)
IsDigit(c) == c \in {"0", "1", "2", "3", "4", "5", "6", "7", "8", "9"}
IsLower(c) == c \in {"a", "b", "c", "d", "e", "f", "g", "h", "i", "j", "k", "l", "m",
                     "n", "o", "p", "q", "r", "s", "t", "u", "v", "w", "x", "y", "z"}
IsUpper(c) == c \in {"A", "B", "C", "D", "E", "F", "G", "H", "I", "J", "K", "L", "M",
                     "N", "O", "P", "Q", "R", "S", "T", "U", "V", "W", "X", "Y", "Z"}
IsLetter(c) == IsLower(c) \/ IsUpper(c)
IsHex(c) == IsDigit(c) \/ c \in {"a", "b", "c", "d", "e", "f"}

\* positions after a literal read from a position of P
Lit(s, P, lit) ==
    {p + Len(lit) : p \in {q \in P : q + Len(lit) - 1 <= Len(s)
                                     /\ SubSeq(s, q, q + Len(lit) - 1) = lit}}
\* [0-9]+ and [a-zA-Z]+
Digits(s, P) ==
    {q \in 1..(Len(s) + 1) : \E p \in P : p < q /\ \A i \in p..(q - 1) : IsDigit(Ch(s, i))}
Letters(s, P) ==
    {q \in 1..(Len(s) + 1) : \E p \in P : p < q /\ \A i \in p..(q - 1) : IsLetter(Ch(s, i))}

\* \.[0-9]+ and (\.[0-9]+)*
DotNum(s, P) == Digits(s, Lit(s, P, "."))
RECURSIVE DotNumStar(_, _)
DotNumStar(s, P) ==
    LET N == P \cup DotNum(s, P) IN IF N = P THEN P ELSE DotNumStar(s, N)

\* (\.[0-9]+|\_[a-zA-Z]+(\.[0-9]+)*)*
Qualifier(s, P) == DotNum(s, P) \cup DotNumStar(s, Letters(s, Lit(s, P, "_")))
RECURSIVE QualifierStar(_, _)
QualifierStar(s, P) ==
    LET N == P \cup Qualifier(s, P) IN IF N = P THEN P ELSE QualifierStar(s, N)

\* ^v?[0-9]+\.[0-9]+\.[0-9]+
Core(s) ==
    LET start == {1} \cup Lit(s, {1}, "v")
    IN Digits(s, Lit(s, Digits(s, Lit(s, Digits(s, start), ".")), "."))

AtEnd(s, P) == (Len(s) + 1) \in P

versionRelease(s) == AtEnd(s, Core(s))

versionPrerelease(s) ==
    LET sep == Lit(s, Core(s), "-") \cup Lit(s, Core(s), "~")
        kw == Lit(s, sep, "alpha") \cup Lit(s, sep, "beta")
              \cup Lit(s, sep, "rc") \cup Lit(s, sep, "pre")
    IN AtEnd(s, QualifierStar(s, kw))

versionPostrelease(s) ==
    LET sep == Lit(s, Core(s), ".")
        kw == Lit(s, sep, "fix") \cup Lit(s, sep, "next") \cup Lit(s, sep, "post")
    IN AtEnd(s, QualifierStar(s, kw))

\* a variant of versionIntermediate whose first separator may also be a dot
versionIntermediateAnySep(s) ==
    LET sep == Lit(s, Core(s), "_") \cup Lit(s, Core(s), ".")
    IN AtEnd(s, QualifierStar(s, Letters(s, sep)))

versionIntermediate(s) ==
    AtEnd(s, QualifierStar(s, Letters(s, Lit(s, Core(s), "_"))))

Patterns == {"release", "prerelease", "postrelease", "intermediate"}

MatchString(p, s) ==
    CASE p = "release" -> versionRelease(s)
      [] p = "prerelease" -> versionPrerelease(s)
      [] p = "postrelease" -> versionPostrelease(s)
      [] p = "intermediate" -> versionIntermediate(s)

\* the chain of ifs of checkVersion, for an order of the patterns:
\* the first pattern of the order that matches, "" when none does
RECURSIVE FirstMatch(_, _)
FirstMatch(order, s) ==
    IF order = <<>> THEN ""
    ELSE IF MatchString(Head(order), s) THEN Head(order)
    ELSE FirstMatch(Tail(order), s)

CheckOrder == <<"release", "prerelease", "postrelease", "intermediate">>

\* the first pattern of an order that belongs to a set of matching patterns
RECURSIVE FirstOf(_, _)
FirstOf(order, matched) ==
    IF order = <<>> THEN ""
    ELSE IF Head(order) \in matched THEN Head(order)
    ELSE FirstOf(Tail(order), matched)

\* every order in which the four patterns can be tested
Orders ==
    {o \in [1..4 -> Patterns] : \A i, j \in 1..4 : i # j => o[i] # o[j]}

(***************************************************************************)
(* Version strings given to the classifier                                 *)
(***************************************************************************)
VersionPrefixes == {"v1.2.3", "1.2"}
VersionPieces == {".", "-", "~", "_", "1", "beta", "fix"}

RECURSIVE PieceStrings(_)
PieceStrings(n) ==
    IF n = 0 THEN {""}
    ELSE LET shorter == PieceStrings(n - 1)
         IN shorter \cup {t \o p : t \in shorter, p \in VersionPieces}

VersionStrings(n) == {pre \o suf : pre \in VersionPrefixes, suf \in PieceStrings(n)}

\* the examples of the specification, and a tag with an upper-case qualifier
VersionExamples ==
    {"1.2.3", "1.2.3-beta.1", "1.2.3.fix.2", "1.2.3_patched.1", "1.2",
     "1.2.3~rc_x.1", "1.2.3.next", "1.2.3_A.1_b"}

VersionArgs == VersionStrings(MaxArgPieces) \cup VersionExamples

(***************************************************************************)
(* version_check: output texts                                             *)
(***************************************************************************)
Println(out, s) == out \o s \o "\n"

VcVERSION == "0.2"

printHelp(out) ==
    out
    \o "version_check check that version is set correct according to project rules\n"
    \o "usage: version_check [-h|--help] [-v|--version] version\n"
    \o "options:\n"
    \o "    -h|--help        print this help and exit\n"
    \o "    -V|--version     print version number\n"
    \o "    -r|--rules       print regexp rules for check versions and exit\n"
    \o "    -d|--debug       debug output\n"
    \o "    -t|--type        output version type: release, prerelease, postrelease, intermediate\n"
    \o "    -b|--build-type  output build type for cmake: Release for release version, Debug for other\n"
    \o "    --no-color       no colored output\n"
    \o "arguments:\n"
    \o "    version          version string to check\n"

printRules(out) ==
    out
    \o "version rules in precedence order:\n"
    \o "    release:     ^v?[0-9]+\\.[0-9]+\\.[0-9]+$\n"
    \o "    prerelease:  ^v?[0-9]+\\.[0-9]+\\.[0-9]+(\\-|\\~)(alpha|beta|rc|pre)(\\.[0-9]+|\\_[a-zA-Z]+(\\.[0-9]+)*)*$\n"
    \o "    postrelease: ^v?[0-9]+\\.[0-9]+\\.[0-9]+\\.(fix|next|post)(\\.[0-9]+|\\_[a-zA-Z]+(\\.[0-9]+)*)*$\n"
    \o "    intermediate:^v?[0-9]+\\.[0-9]+\\.[0-9]+\\_[a-zA-Z]+(\\.[0-9]+|\\_[a-zA-Z]+(\\.[0-9]+)*)*$\n"

\* what each branch of checkVersion prints under -t and under -b
TypeLabel(p) ==
    CASE p = "release" -> "Release"
      [] p = "prerelease" -> "Pre release"
      [] p = "postrelease" -> "Post release"
      [] p = "intermediate" -> "Intermediate release"

\* a variant of BuildLabel that reports Release for every category
BuildLabelAlwaysRelease(p) == "Release"

BuildLabel(p) == IF p = "release" THEN "Release" ELSE "Debug"

\* stdout after the branch of pattern p has run
BranchOutput(out, p, t, b) ==
    LET o1 == IF t THEN Println(out, TypeLabel(p)) ELSE out
    IN IF b THEN Println(o1, BuildLabel(p)) ELSE o1

(***************************************************************************)
(* version_check: main                                                     *)
(***************************************************************************)
IsVc == tool = "version_check" /\ pc = "main"

Exit(code) == pc' = "exit" /\ exitCode' = code

VcFrame ==
    UNCHANGED <<tool, helpFlag, versionFlag, rulesFlag, typeFlag, buildTypeFlag,
                releaseFlag, strategy, args, PROJECT_NAME, RELEASE, VERSIONING,
                calls, lastRun, lastFn, lastRet, remote, projectRes, versionRes,
                versionStr, category>>

VcHelp ==
    /\ IsVc /\ helpFlag
    /\ stdout' = printHelp(stdout)
    /\ Exit(0)
    /\ VcFrame

VcVersion ==
    /\ IsVc /\ ~helpFlag /\ versionFlag
    /\ stdout' = Println(stdout, VcVERSION)
    /\ Exit(0)
    /\ VcFrame

VcRules ==
    /\ IsVc /\ ~helpFlag /\ ~versionFlag /\ rulesFlag
    /\ stdout' = printRules(stdout)
    /\ Exit(0)
    /\ VcFrame

VcRuns == IsVc /\ ~helpFlag /\ ~versionFlag /\ rulesFlag = FALSE

\* a variant of VcNoArgs with the commented-out Println of line 168 restored
VcNoArgsPrinting ==
    /\ VcRuns /\ Len(args) = 0
    /\ stdout' = Println(stdout, "Error: No version argument provided")
    /\ Exit(1)
    /\ VcFrame

VcNoArgs ==
    /\ VcRuns /\ Len(args) = 0
    /\ stdout' = stdout
    /\ Exit(1)
    /\ VcFrame

\* checkVersion(args[0]): the first matching branch prints and exits 0,
\* no match exits 1
checkVersion ==
    /\ VcRuns /\ Len(args) > 0
    /\ LET p == FirstMatch(CheckOrder, args[1])
       IN IF p # ""
          THEN stdout' = BranchOutput(stdout, p, typeFlag, buildTypeFlag) /\ Exit(0)
          ELSE stdout' = stdout /\ Exit(1)
    /\ VcFrame

(***************************************************************************)
(* describe: subprocess results                                            *)
(***************************************************************************)
\* cmd.Output(): err is set on a nonzero exit or an I/O error
NoRun == [err |-> FALSE, out |-> ""]
FailedRun == [err |-> TRUE, out |-> ""]

RemoteCmd == "git remote -v"
ReleaseCmd == "git describe --match v[0-9]* --abbrev=2 --tags HEAD"
TagCmd == "git describe --match v[0-9]* --abbrev=0 --tags HEAD"
AbbrevCmd == "git describe --match v[0-9]* --abbrev=2 --always --tags"
RankCmd == "git describe --match v[0-9]* --abbrev=0 --always --tags"

(***************************************************************************)
(* describe: Project and Module                                            *)
(***************************************************************************)
\* the loop of Project over the pieces of the remote listing
RECURSIVE ProjectScan(_)
ProjectScan(lines) ==
    IF lines = <<>> THEN ""
    ELSE LET line == Head(lines)
             parts == Fields(line)
         IN IF ~Contains(line, "fetch") \/ Len(parts) < 2
            THEN ProjectScan(Tail(lines))
            ELSE LET url == parts[1]
                     pathParts == Split(url, "/")
                     sshParts == SplitN2(url, ":")
                 IN IF Contains(url, "://")
                    THEN IF Len(pathParts) < 2
                         THEN ProjectScan(Tail(lines))
                         ELSE ReplaceAll(
                                TrimSuffix(Join(SubSeq(pathParts, Len(pathParts) - 1,
                                                       Len(pathParts)), "/"), ".git"),
                                "/", "-")
                    ELSE IF Len(sshParts) # 2
                         THEN ProjectScan(Tail(lines))
                         ELSE ReplaceAll(TrimSuffix(sshParts[2], ".git"), "/", "-")

\* Project(), given PROJECT_NAME and the result of "git remote -v"
Project(env, run) ==
    IF env # "" THEN env
    ELSE IF run.err THEN ""
    ELSE ProjectScan(Split(run.out, "n"))

\* the loop of Module over the lines of the remote listing
RECURSIVE ModuleScan(_)
ModuleScan(lines) ==
    IF lines = <<>> THEN ""
    ELSE LET line == Head(lines)
             parts == Fields(line)
         IN IF ~Contains(line, "fetch") \/ Len(parts) < 2
            THEN ModuleScan(Tail(lines))
            ELSE LET afterColon == SplitN2(parts[2], ":")
                 IN IF Len(afterColon) < 2
                    THEN ModuleScan(Tail(lines))
                    ELSE Base(TrimSuffix(afterColon[2], ".git"))

\* a variant of Module that splits the listing as Project does
ModuleSplitOnN(env, run) ==
    IF env # "" THEN env
    ELSE IF run.err THEN ""
    ELSE ModuleScan(Split(run.out, "n"))

\* Module(), given PROJECT_NAME and the result of "git remote -v"
Module(env, run) ==
    IF env # "" THEN env
    ELSE IF run.err THEN ""
    ELSE ModuleScan(Split(run.out, "\n"))

\* a variant of NeedsRemote that always runs the remote listing
NeedsRemoteAlways(env) == TRUE

\* Project and Module run "git remote -v" only past the PROJECT_NAME return
NeedsRemote(env) == env = ""

(***************************************************************************)
(* describe: Release                                                       *)
(***************************************************************************)
\* regexp `-g[a-f0-9]+$`, ReplaceAllString(s, ""): the match ends the text
HexRun(s, P) ==
    {q \in 1..(Len(s) + 1) : \E p \in P : p < q /\ \A i \in p..(q - 1) : IsHex(Ch(s, i))}

StripHashSuffix(s) ==
    LET starts == {p \in 1..Len(s) : AtEnd(s, HexRun(s, Lit(s, {p}, "-g")))}
    IN IF starts = {} THEN s
       ELSE SubSeq(s, 1, (CHOOSE p \in starts : \A q \in starts : p <= q) - 1)

\* a variant of Release that falls back to "0" when the subprocess fails
ReleaseZeroOnError(rel, run) ==
    IF rel = 1
    THEN IF run.err THEN "0"
         ELSE LET parts == Split(StripHashSuffix(run.out), "-")
              IN IF Len(parts) > 1 THEN parts[Len(parts) - 1] ELSE "0"
    ELSE "1"

\* Release(), given RELEASE and the result of the describe subprocess
Release(rel, run) ==
    IF rel = 1
    THEN IF run.err THEN ""
         ELSE LET parts == Split(StripHashSuffix(run.out), "-")
              IN IF Len(parts) > 1 THEN parts[Len(parts) - 1] ELSE "0"
    ELSE "1"

(***************************************************************************)
(* describe: Version                                                       *)
(***************************************************************************)
\* byte order of the characters that occur in describe output
ByteOrder ==
    "\t\n\r -./0123456789:@ABCDEFGHIJKLMNOPQRSTUVWXYZ_abcdefghijklmnopqrstuvwxyz~"

\* a < b as Go compares strings
RECURSIVE StringLess(_, _)
StringLess(a, b) ==
    IF b = "" THEN FALSE
    ELSE IF a = "" THEN TRUE
    ELSE IF Ch(a, 1) = Ch(b, 1)
         THEN StringLess(SubSeq(a, 2, Len(a)), SubSeq(b, 2, Len(b)))
         ELSE Index(ByteOrder, Ch(a, 1)) < Index(ByteOrder, Ch(b, 1))

\* sort.Strings
RECURSIVE InsertSorted(_, _)
InsertSorted(sorted, x) ==
    IF sorted = <<>> THEN <<x>>
    ELSE IF StringLess(x, Head(sorted)) THEN <<x>> \o sorted
    ELSE <<Head(sorted)>> \o InsertSorted(Tail(sorted), x)
RECURSIVE SortStrings(_)
SortStrings(xs) ==
    IF xs = <<>> THEN <<>> ELSE InsertSorted(SortStrings(Tail(xs)), Head(xs))

versionTag(run) ==
    IF run.err THEN ""
    ELSE ReplaceFirst(TrimPrefix(TrimSpace(run.out), "v"), "-", "~")

\* the loop of versionAbbrev: the rewritten lines that begin with v
RECURSIVE AbbrevLines(_)
AbbrevLines(lines) ==
    IF lines = <<>> THEN <<>>
    ELSE IF HasPrefix(Head(lines), "v")
         THEN <<ReplaceFirst(ReplaceFirst(Head(lines), "-g", ""), "-", "~")>>
              \o AbbrevLines(Tail(lines))
         ELSE AbbrevLines(Tail(lines))

versionAbbrev(run) ==
    IF run.err THEN ""
    ELSE LET versions == SortStrings(AbbrevLines(Split(TrimSpace(run.out), "n")))
         IN IF Len(versions) > 0 THEN TrimPrefix(versions[Len(versions)], "v") ELSE ""

\* the loop of versionRank: the lines that begin with v
RECURSIVE RankLines(_)
RankLines(lines) ==
    IF lines = <<>> THEN <<>>
    ELSE IF HasPrefix(Head(lines), "v")
         THEN <<Head(lines)>> \o RankLines(Tail(lines))
         ELSE RankLines(Tail(lines))

versionRank(run) ==
    IF run.err THEN ""
    ELSE LET versions == SortStrings(RankLines(Split(TrimSpace(run.out), "n")))
         IN IF Len(versions) > 0 THEN TrimPrefix(versions[Len(versions)], "v") ELSE ""

Strategies == {"tag", "abbrev", "rank"}

\* the subprocess each strategy of Version() runs
VersionCmd(versioning) ==
    CASE versioning = "tag" -> TagCmd
      [] versioning = "abbrev" -> AbbrevCmd
      [] versioning = "rank" -> RankCmd

\* Version() for a known strategy
Version(versioning, run) ==
    CASE versioning = "tag" -> versionTag(run)
      [] versioning = "abbrev" -> versionAbbrev(run)
      [] versioning = "rank" -> versionRank(run)

(***************************************************************************)
(* describe: what the subprocess can answer                                *)
(***************************************************************************)
RemoteNames == {"origin", "upstream"}
Hosts == {"github.com"}
Orgs == {"acme", "nix"}
Repos == {"tool", "nano"}
GitSuffixes == {"", ".git"}

HttpsUrl(host, org, repo, suffix) == "https://" \o host \o "/" \o org \o "/" \o repo \o suffix
SshUrl(host, org, repo, suffix) == "git@" \o host \o ":" \o org \o "/" \o repo \o suffix

\* the two lines "git remote -v" prints for one remote
RemoteLines(name, url) ==
    name \o "\t" \o url \o " (fetch)\n" \o name \o "\t" \o url \o " (push)\n"

\* a second remote listed after the first
OtherRemotes == {"", RemoteLines("zmirror", "git@example.org:mirror/copy.git")}

RemoteUrls ==
    {HttpsUrl(h, o, r, g) : h \in Hosts, o \in Orgs, r \in Repos, g \in GitSuffixes}
    \cup {SshUrl(h, o, r, g) : h \in Hosts, o \in Orgs, r \in Repos, g \in GitSuffixes}

RemoteListings ==
    {""} \cup {RemoteLines(n, u) \o rest : n \in RemoteNames, u \in RemoteUrls, rest \in OtherRemotes}

RemoteRuns == {FailedRun} \cup {[err |-> FALSE, out |-> l] : l \in RemoteListings}

Tags == {"v1.2.3", "v1.2.3-beta", "v1.2.3.next"}
Hashes == {"ab", "3f9e"}
LineEnds == {"\n", ""}

RECURSIVE Itoa(_)
Itoa(n) ==
    IF n < 10 THEN Ch("0123456789", n + 1)
    ELSE Itoa(n \div 10) \o Ch("0123456789", (n % 10) + 1)

\* <tag>-<n>-g<hash>
Described(tag, n, hash) == tag \o "-" \o Itoa(n) \o "-g" \o hash

\* --abbrev=0 prints the tag alone; --abbrev=2 appends distance and hash when
\* HEAD is past the tag; --always prints the bare hash when no tag matches
DescribeLines(cmd) ==
    Tags
    \cup (IF cmd \in {ReleaseCmd, AbbrevCmd}
          THEN {Described(t, n, h) : t \in Tags, n \in 1..MaxDistance, h \in Hashes}
          ELSE {})
    \cup (IF cmd \in {AbbrevCmd, RankCmd} THEN Hashes ELSE {})

DescribeRuns(cmd) ==
    {FailedRun} \cup {[err |-> FALSE, out |-> l \o e] : l \in DescribeLines(cmd), e \in LineEnds}

(***************************************************************************)
(* describe: main                                                          *)
(***************************************************************************)
DescribeVERSION == "0.4"

Help(out) ==
    out
    \o "describe project version and release from git describe\n"
    \o "usage: describe [-h|--help] [-v|--version] [-r|--release] project|version|release|full\n"
    \o "options:\n"
    \o "    -h|--help      print this help and exit\n"
    \o "    -V|--version   print version number\n"
    \o "    -d|--debug     debug output\n"
    \o "    --no-color     no color output\n"
    \o "    -r|--release   use commit number as release number, default is no and release is 1\n"
    \o "    -s|--strategy  versioning strategy type: tag, abbrev, rank; default is tag\n"
    \o "commands:\n"
    \o "    project        print project name\n"
    \o "    module         print module name\n"
    \o "    version        print project version\n"
    \o "    release        print project release\n"
    \o "    full           print full project name-version-release\n"

NoCommandError == "Error: No command provided. Usage: describe module|project|version|release|full"

IsDescribe == tool = "describe" /\ pc = "main"

FlagsFrame ==
    UNCHANGED <<tool, helpFlag, versionFlag, rulesFlag, typeFlag, buildTypeFlag,
                releaseFlag, strategy, args, PROJECT_NAME, remote, versionStr, category>>

NoCall == UNCHANGED <<calls, lastRun, lastFn, lastRet, projectRes, versionRes>>

DHelp ==
    /\ IsDescribe /\ helpFlag
    /\ stdout' = Help(stdout)
    /\ Exit(0)
    /\ FlagsFrame /\ NoCall /\ UNCHANGED <<RELEASE, VERSIONING>>

DVersion ==
    /\ IsDescribe /\ ~helpFlag /\ versionFlag
    /\ stdout' = Println(stdout, DescribeVERSION)
    /\ Exit(0)
    /\ FlagsFrame /\ NoCall /\ UNCHANGED <<RELEASE, VERSIONING>>

DRuns == IsDescribe /\ ~helpFlag /\ versionFlag = FALSE

\* if releaseFlag { RELEASE = 1 }
SetRelease == RELEASE' = IF releaseFlag THEN 1 ELSE RELEASE

DNoCommand ==
    /\ DRuns /\ Len(args) = 0
    /\ SetRelease
    /\ stdout' = Println(stdout, NoCommandError)
    /\ Exit(1)
    /\ FlagsFrame /\ NoCall /\ UNCHANGED VERSIONING

\* a variant of DBadStrategy that logs the unknown strategy and goes on
DBadStrategyGoesOn ==
    /\ DRuns /\ Len(args) > 0 /\ strategy \notin Strategies
    /\ SetRelease
    /\ pc' = "command"
    /\ FlagsFrame /\ NoCall /\ UNCHANGED <<VERSIONING, stdout, exitCode>>

DBadStrategy ==
    /\ DRuns /\ Len(args) > 0 /\ strategy \notin Strategies
    /\ SetRelease
    /\ Exit(1)
    /\ FlagsFrame /\ NoCall /\ UNCHANGED <<VERSIONING, stdout>>

DStrategy ==
    /\ DRuns /\ Len(args) > 0 /\ strategy \in Strategies
    /\ SetRelease
    /\ VERSIONING' = strategy
    /\ pc' = "command"
    /\ FlagsFrame /\ NoCall /\ UNCHANGED <<stdout, exitCode>>

AtCommand(c) == tool = "describe" /\ pc = "command" /\ args[1] = c

\* the call of Project() or Module(): fn is the name, ret the value returned
RemoteCall(fn, ret) ==
    /\ lastFn' = fn
    /\ lastRet' = ret
    /\ IF NeedsRemote(PROJECT_NAME)
       THEN /\ calls' = Append(calls, [cmd |-> RemoteCmd, err |-> remote.err])
            /\ lastRun' = remote
       ELSE UNCHANGED <<calls, lastRun>>

\* the call of Version() with a known strategy, the subprocess answering run
VersionCall(run) ==
    /\ lastFn' = "Version"
    /\ lastRet' = Version(VERSIONING, run)
    /\ calls' = Append(calls, [cmd |-> VersionCmd(VERSIONING), err |-> run.err])
    /\ lastRun' = run

\* the call of Release(): the subprocess runs only when RELEASE is 1
ReleaseCall(run) ==
    /\ lastFn' = "Release"
    /\ lastRet' = Release(RELEASE, run)
    /\ IF RELEASE = 1
       THEN /\ calls' = Append(calls, [cmd |-> ReleaseCmd, err |-> run.err])
            /\ lastRun' = run
       ELSE UNCHANGED <<calls, lastRun>>

ReleaseRuns == IF RELEASE = 1 THEN DescribeRuns(ReleaseCmd) ELSE {NoRun}

CmdFrame == FlagsFrame /\ UNCHANGED <<RELEASE, VERSIONING>>

CmdProject ==
    /\ AtCommand("project")
    /\ RemoteCall("Project", Project(PROJECT_NAME, remote))
    /\ stdout' = Println(stdout, lastRet')
    /\ pc' = "exit"
    /\ CmdFrame /\ UNCHANGED <<exitCode, projectRes, versionRes>>

CmdModule ==
    /\ AtCommand("module")
    /\ RemoteCall("Module", Module(PROJECT_NAME, remote))
    /\ stdout' = Println(stdout, lastRet')
    /\ pc' = "exit"
    /\ CmdFrame /\ UNCHANGED <<exitCode, projectRes, versionRes>>

\* Version() leaves through os.Exit(1) on an unknown strategy; main has
\* already rejected such a strategy, so this branch is never taken
VersionExits ==
    /\ VERSIONING \notin Strategies
    /\ Exit(1)
    /\ UNCHANGED <<stdout, calls, lastRun, lastFn, lastRet, projectRes, versionRes>>

CmdVersion ==
    /\ AtCommand("version")
    /\ \/ VersionExits
       \/ /\ VERSIONING \in Strategies
          /\ \E run \in DescribeRuns(VersionCmd(VERSIONING)) :
                /\ VersionCall(run)
                /\ stdout' = Println(stdout, lastRet')
          /\ pc' = "exit"
          /\ UNCHANGED <<exitCode, projectRes, versionRes>>
    /\ CmdFrame

CmdRelease ==
    /\ AtCommand("release")
    /\ \E run \in ReleaseRuns :
          /\ ReleaseCall(run)
          /\ stdout' = Println(stdout, lastRet')
    /\ pc' = "exit"
    /\ CmdFrame /\ UNCHANGED <<exitCode, projectRes, versionRes>>

\* fmt.Printf("%s-%s-%s", Project(), Version(), Release()): the operands are
\* evaluated left to right, then the text is written
FullProject ==
    /\ AtCommand("full")
    /\ RemoteCall("Project", Project(PROJECT_NAME, remote))
    /\ projectRes' = lastRet'
    /\ pc' = "full_version"
    /\ CmdFrame /\ UNCHANGED <<stdout, exitCode, versionRes>>

FullVersion ==
    /\ tool = "describe" /\ pc = "full_version"
    /\ \/ VersionExits
       \/ /\ VERSIONING \in Strategies
          /\ \E run \in DescribeRuns(VersionCmd(VERSIONING)) : VersionCall(run)
          /\ versionRes' = lastRet'
          /\ pc' = "full_release"
          /\ UNCHANGED <<stdout, exitCode, projectRes>>
    /\ CmdFrame

FullRelease ==
    /\ tool = "describe" /\ pc = "full_release"
    /\ \E run \in ReleaseRuns :
          /\ ReleaseCall(run)
          /\ stdout' = stdout \o projectRes \o "-" \o versionRes \o "-" \o lastRet'
    /\ pc' = "exit"
    /\ CmdFrame /\ UNCHANGED <<exitCode, projectRes, versionRes>>

Commands == {"project", "module", "version", "release", "full"}

CmdUnknown ==
    /\ tool = "describe" /\ pc = "command" /\ args[1] \notin Commands
    /\ Exit(1)
    /\ CmdFrame /\ NoCall /\ UNCHANGED stdout

(***************************************************************************)
(* Classification runs: the four patterns applied to one version string    *)
(***************************************************************************)
Classify ==
    /\ tool = "classifier" /\ pc = "input"
    /\ category' = {p \in Patterns : MatchString(p, versionStr)}
    /\ lastRet' = FirstMatch(CheckOrder, versionStr)
    /\ pc' = "classified"
    /\ UNCHANGED <<tool, helpFlag, versionFlag, rulesFlag, typeFlag, buildTypeFlag,
                   releaseFlag, strategy, args, PROJECT_NAME, RELEASE, VERSIONING,
                   stdout, exitCode, calls, lastRun, lastFn, remote, projectRes,
                   versionRes, versionStr>>

(***************************************************************************)
(* Initial states and specifications                                       *)
(***************************************************************************)
Idle ==
    /\ RELEASE = 0 /\ VERSIONING = "tag"
    /\ stdout = "" /\ exitCode = 0
    /\ calls = <<>> /\ lastRun = NoRun /\ lastFn = "" /\ lastRet = ""
    /\ projectRes = "" /\ versionRes = ""
    /\ category = {}

InitVersionCheck ==
    /\ tool = "version_check" /\ pc = "main"
    /\ helpFlag \in BOOLEAN /\ versionFlag \in BOOLEAN /\ rulesFlag \in BOOLEAN
    /\ typeFlag \in BOOLEAN /\ buildTypeFlag \in BOOLEAN
    /\ args \in {<<>>} \cup {<<v>> : v \in VersionArgs}
    /\ releaseFlag = FALSE /\ strategy = "tag" /\ PROJECT_NAME = ""
    /\ remote = NoRun
    /\ versionStr = ""
    /\ Idle

InitClassify ==
    /\ tool = "classifier" /\ pc = "input"
    /\ versionStr \in VersionStrings(MaxPieces)
    /\ helpFlag = FALSE /\ versionFlag = FALSE /\ rulesFlag = FALSE
    /\ typeFlag = FALSE /\ buildTypeFlag = FALSE
    /\ args = <<>>
    /\ releaseFlag = FALSE /\ strategy = "tag" /\ PROJECT_NAME = ""
    /\ remote = NoRun
    /\ Idle

InitDescribe ==
    /\ tool = "describe" /\ pc = "main"
    /\ helpFlag \in BOOLEAN /\ versionFlag \in BOOLEAN
    /\ releaseFlag \in BOOLEAN
    /\ strategy \in Strategies \cup {"semver"}
    /\ args \in {<<>>} \cup {<<c>> : c \in Commands \cup {"fulln"}}
    /\ PROJECT_NAME \in {"", "foo"}
    /\ remote \in RemoteRuns
    /\ rulesFlag = FALSE /\ typeFlag = FALSE /\ buildTypeFlag = FALSE
    /\ versionStr = ""
    /\ Idle

Init == InitVersionCheck \/ InitDescribe

Next ==
    \/ VcHelp \/ VcVersion \/ VcRules \/ VcNoArgs \/ checkVersion
    \/ DHelp \/ DVersion \/ DNoCommand \/ DBadStrategy \/ DStrategy
    \/ CmdProject \/ CmdModule \/ CmdVersion \/ CmdRelease
    \/ FullProject \/ FullVersion \/ FullRelease \/ CmdUnknown

Spec == Init /\ [][Next]_vars

SpecClassify == InitClassify /\ [][Classify]_vars

(***************************************************************************)
(* Claims                                                                  *)
(***************************************************************************)
Classified == tool = "classifier" /\ pc = "classified"

\* C1: at most one of the four patterns matches a version string, so the
\* category found by the chain of tests is the same for every order in which
\* the four patterns could be tested.
C1_MutuallyExclusive ==
    Classified =>
        /\ Cardinality(category) <= 1
        /\ \A o \in Orders : FirstOf(o, category) = lastRet

\* C1 witness: a post-release string with a word qualifier has been classified,
\* and only the post-release pattern matches it.
C1_Witness ==
    /\ Classified
    /\ versionStr = "v1.2.3.fix_beta"
    /\ category = {"postrelease"}
    /\ lastRet = "postrelease"

VcChecked ==
    /\ tool = "version_check" /\ pc = "exit"
    /\ ~helpFlag /\ ~versionFlag /\ ~rulesFlag

\* the position in the documented order of the first pattern matching s, 0 if none
FirstIndex(s) ==
    LET hits == {i \in 1..4 : MatchString(CheckOrder[i], s)}
    IN IF hits = {} THEN 0 ELSE CHOOSE i \in hits : \A j \in hits : i <= j

C2_Labels == <<"Release", "Pre release", "Post release", "Intermediate release">>

C2_Expected(i, t, b) ==
    (IF t THEN C2_Labels[i] \o "\n" ELSE "")
    \o (IF b THEN (IF i = 1 THEN "Release\n" ELSE "Debug\n") ELSE "")

C2_Example(v, label, build) ==
    (VcChecked /\ args = <<v>>) =>
        stdout = (IF typeFlag THEN label \o "\n" ELSE "")
                 \o (IF buildTypeFlag THEN build \o "\n" ELSE "")

\* C2: checkVersion reports the first of Release, Pre-release, Post-release,
\* Intermediate that matches: -t prints exactly that category's label, -b
\* prints Release for the Release category and Debug for the other three.
C2_FirstMatchOutput ==
    /\ (VcChecked /\ Len(args) > 0 /\ FirstIndex(args[1]) # 0) =>
            stdout = C2_Expected(FirstIndex(args[1]), typeFlag, buildTypeFlag)
    /\ C2_Example("1.2.3", "Release", "Release")
    /\ C2_Example("1.2.3-beta.1", "Pre release", "Debug")
    /\ C2_Example("1.2.3.fix.2", "Post release", "Debug")
    /\ C2_Example("1.2.3_patched.1", "Intermediate release", "Debug")

\* C2 witness: an intermediate version was checked with -t and -b.
C2_Witness ==
    /\ VcChecked /\ typeFlag /\ buildTypeFlag
    /\ args = <<"1.2.3_patched.1">>
    /\ stdout = "Intermediate release\nDebug\n"

\* C3: without -h, -V and -r the tool exits 0 exactly when a version argument
\* is given and matches one of the four patterns; otherwise it exits 1 having
\* written nothing to stdout.
C3_ExitStatus ==
    VcChecked =>
        LET matches == Len(args) > 0 /\ \E p \in Patterns : MatchString(p, args[1])
        IN /\ exitCode = 0 <=> matches
           /\ ~matches => (exitCode = 1 /\ stdout = "")

\* C3 witness: "1.2" was rejected with -t and -b set.
C3_Witness ==
    /\ VcChecked /\ typeFlag /\ buildTypeFlag
    /\ args = <<"1.2">>
    /\ exitCode = 1 /\ stdout = ""

IsD == tool = "describe"

\* the remote listing starts with the two lines of a remote named n at url
FirstRemoteIs(n, url) ==
    /\ ~remote.err
    /\ \E rest \in OtherRemotes : remote.out = RemoteLines(n, url) \o rest

\* C4: with PROJECT_NAME unset and a first fetch line that carries an HTTPS URL
\* scheme://host/org/repo or scheme://host/org/repo.git, Project() returns
\* org-repo, whatever the remote name and the org, repo and host texts are.
C4_ProjectHttps ==
    \A n \in RemoteNames, h \in Hosts, o \in Orgs, r \in Repos, g \in GitSuffixes :
        (IsD /\ lastFn = "Project" /\ PROJECT_NAME = ""
             /\ FirstRemoteIs(n, HttpsUrl(h, o, r, g)))
        => lastRet = o \o "-" \o r

\* C5: with PROJECT_NAME unset and a first fetch line that carries an SSH URL
\* user@host:org/repo or user@host:org/repo.git, Module() returns repo.
C5_ModuleSsh ==
    \A n \in RemoteNames, h \in Hosts, o \in Orgs, r \in Repos, g \in GitSuffixes :
        (IsD /\ lastFn = "Module" /\ PROJECT_NAME = ""
             /\ FirstRemoteIs(n, SshUrl(h, o, r, g)))
        => lastRet = r

\* C5 witness: Module() has returned nano for upstream git@github.com:nix/nano.git.
C5_Witness ==
    /\ IsD /\ lastFn = "Module" /\ PROJECT_NAME = ""
    /\ remote = [err |-> FALSE,
                 out |-> RemoteLines("upstream", "git@github.com:nix/nano.git")]
    /\ lastRet = "nano"
    /\ stdout = "nano\n"

RemoteInvoked == \E i \in DOMAIN calls : calls[i].cmd = RemoteCmd

\* C6: with PROJECT_NAME set to a non-empty value, Project() and Module()
\* return it verbatim and the remote-listing subprocess is never run, whatever
\* the remote configuration is.
C6_ProjectNameOverride ==
    (IsD /\ PROJECT_NAME # "") =>
        /\ ~RemoteInvoked
        /\ lastFn \in {"Project", "Module"} => lastRet = PROJECT_NAME
        /\ pc \in {"full_version", "full_release"} => projectRes = PROJECT_NAME
        /\ (pc = "exit" /\ lastFn \in {"Project", "Module"})
              => stdout = PROJECT_NAME \o "\n"

\* C6 witness: Module() returned foo in a repository whose remote listing fails.
C6_Witness ==
    /\ IsD /\ PROJECT_NAME = "foo" /\ remote.err
    /\ pc = "exit" /\ lastFn = "Module" /\ lastRet = "foo"
    /\ calls = <<>>

\* C7: with -r, Release() returns <n> for describe output <tag>-<n>-g<hash>
\* and "0" for output that is a tag alone, with or without a final newline.
C7_ReleaseDistance ==
    (IsD /\ lastFn = "Release" /\ RELEASE = 1 /\ ~lastRun.err) =>
        \A t \in Tags, e \in LineEnds :
            /\ lastRun.out = t \o e => lastRet = "0"
            /\ \A n \in 1..MaxDistance, h \in Hashes :
                  lastRun.out = Described(t, n, h) \o e => lastRet = Itoa(n)

DPastFlags == IsD /\ ~helpFlag /\ ~versionFlag

Unrecognized ==
    \/ strategy \notin Strategies
    \/ Len(args) > 0 /\ args[1] \notin Commands

\* C8: without -h and -V, an unrecognized strategy or an unrecognized command
\* ends the run with a nonzero status and no result line is ever written: no
\* extractor runs, and stdout stays empty.
C8_ValidationBeforeOutput ==
    (DPastFlags /\ Unrecognized) =>
        /\ lastFn = "" /\ calls = <<>>
        /\ stdout = "" \/ (Len(args) = 0 /\ stdout = NoCommandError \o "\n")
        /\ pc \in {"main", "command", "exit"}
        /\ pc = "exit" => exitCode # 0
        /\ pc = "command" => (strategy \in Strategies /\ args[1] \notin Commands)

\* C8 witness: "full" with the unknown strategy semver has exited with status 1.
C8_Witness ==
    /\ DPastFlags /\ strategy = "semver" /\ args = <<"full">>
    /\ pc = "exit" /\ exitCode = 1 /\ stdout = ""

\* the lines of the claim for abbrev: those that begin with v, the whole
\* -g<hash> marker removed and the first remaining - turned into ~
RECURSIVE C9_Lines(_)
C9_Lines(lines) ==
    IF lines = <<>> THEN <<>>
    ELSE IF HasPrefix(Head(lines), "v")
         THEN <<ReplaceFirst(StripHashSuffix(Head(lines)), "-", "~")>>
              \o C9_Lines(Tail(lines))
         ELSE C9_Lines(Tail(lines))

C9_Expected(out) ==
    LET versions == SortStrings(C9_Lines(Split(TrimSpace(out), "\n")))
    IN IF Len(versions) > 0 THEN TrimPrefix(versions[Len(versions)], "v") ELSE ""

\* C9: with the abbrev strategy Version() returns the greatest of the
\* newline-separated lines that begin with v, each with its -g<hash> marker
\* removed and its first remaining - turned into ~, without the leading v.
C9_AbbrevVersion ==
    (IsD /\ lastFn = "Version" /\ VERSIONING = "abbrev" /\ ~lastRun.err) =>
        lastRet = C9_Expected(lastRun.out)

AllCallsFailed == \A i \in DOMAIN calls : calls[i].err

Recognized == strategy \in Strategies /\ Len(args) > 0 /\ args[1] \in Commands

\* C10: with a recognized command and strategy, failing subprocesses never
\* abort the run: the extractors return the empty string (Release() the empty
\* string, or "1" without -r), the result is printed and the status is 0.
C10_FailuresRecovered ==
    /\ (DPastFlags /\ Recognized) =>
            /\ (lastFn \in {"Project", "Module"} /\ PROJECT_NAME = "" /\ remote.err)
                  => lastRet = ""
            /\ (lastFn = "Version" /\ lastRun.err) => lastRet = ""
            /\ (lastFn = "Release" /\ RELEASE = 1 /\ lastRun.err) => lastRet = ""
            /\ (lastFn = "Release" /\ RELEASE = 0) => lastRet = "1"
            /\ exitCode = 0
    /\ (DPastFlags /\ Recognized /\ pc = "exit" /\ AllCallsFailed) =>
            /\ exitCode = 0
            /\ args[1] \in {"project", "module"} => stdout = PROJECT_NAME \o "\n"
            /\ args[1] = "version" => stdout = "\n"
            /\ args[1] = "release" => stdout = (IF releaseFlag THEN "" ELSE "1") \o "\n"
            /\ args[1] = "full" =>
                  stdout = PROJECT_NAME \o "--" \o (IF releaseFlag THEN "" ELSE "1")

\* C10 witness: "full" with -r ended with status 0 after three failed subprocesses.
C10_Witness ==
    /\ DPastFlags /\ args = <<"full">> /\ releaseFlag /\ PROJECT_NAME = ""
    /\ pc = "exit" /\ exitCode = 0
    /\ Len(calls) = 3 /\ AllCallsFailed
    /\ stdout = "--"

====
